---- MODULE Spec2Model ----
(***************************************************************************)
(* Model of the FlixPatrol scraper worker.                                 *)
(*                                                                         *)
(* The repository holds two variants of the worker: src/server/index.js,   *)
(* whose scrapeFlixPatrol walks the rows of the page with cheerio, and     *)
(* src/unnamed/part_000, whose scrapeFlixPatrol hands the page to the      *)
(* regular-expression parser parseMovieData.  The variable "variant" says  *)
(* which of the two is deployed.  Everything else (the two handlers, the   *)
(* filter, storeMoviesInDatabase) is the same code in both files.          *)
(*                                                                         *)
(* Text is modelled as a sequence of one-character strings, so that        *)
(* substring tests, case folding, trimming and splitting are computed.     *)
(***************************************************************************)
EXTENDS Integers, Sequences, FiniteSets, TLC

VARIABLES
    variant,      \* "cheerio" (src/server/index.js) or "regex" (src/unnamed/part_000)
    \* ---- the row loop of the extractor, one row per step
    doc,          \* the rows of the fetched page, in document order
    pos,          \* index of the next row the loop visits
    movies,       \* the array "movies" the loop pushes to
    emitIdx,      \* history: for each pushed movie, the index of its row
    phase,        \* "rows" | "parsed" | "filtered" ("none" when only the handlers run)
    filteredOut,  \* result of the handlers' filter applied to "movies"
    \* ---- the two handlers and the movies table
    pc,           \* per handler: "idle" | "fetch" | "store" | "write" | "done"
    filtered,     \* per handler: filtered2025Movies
    totalScraped, \* per handler: scrapedData.length
    idx,          \* per handler: position of the for-of loop of storeMoviesInDatabase
    storedCount,  \* per handler: storedCount of storeMoviesInDatabase
    failedCount,  \* per handler, history: writes whose error the loop caught
    fetchLog,     \* per handler, history: outcomes of the fetch() calls of the run
    response,     \* per handler: the JSON body returned to the caller
    store,        \* the rows of table movies
    clock,        \* the storage server's NOW()
    lastWrite,    \* history: the last completed storage write
    writeLog      \* per handler, history: the statements of the loop, issued and completed

extractVars == <<doc, pos, movies, emitIdx, phase, filteredOut>>
pipeVars == <<pc, filtered, totalScraped, idx, storedCount, failedCount,
              fetchLog, response, store, clock, lastWrite, writeLog>>
vars == <<variant, doc, pos, movies, emitIdx, phase, filteredOut,
          pc, filtered, totalScraped, idx, storedCount, failedCount,
          fetchLog, response, store, clock, lastWrite, writeLog>>

(***************************************************************************)
(* Bounds.                                                                 *)
(***************************************************************************)
MaxRows == 3      \* rows of a page in the extractor specification
MaxPage == 3      \* rows of a page fetched by a handler, runs one after another
MaxOverlapPage == 1   \* rows of a page fetched by a handler, runs overlapping
MaxClock == 2     \* storage writes that succeed, over all runs

(***************************************************************************)
(* Text.                                                                   *)
(***************************************************************************)
\* JavaScript null / undefined; every real text has one-character elements.
Null == <<"null">>

\* JavaScript truthiness of a text or null: null, undefined and "" are falsy.
Truthy(s) == s # Null /\ s # <<>>

UpperCase == <<"A","B","C","D","E","F","G","H","I","J","K","L","M",
               "N","O","P","Q","R","S","T","U","V","W","X","Y","Z">>
LowerCase == <<"a","b","c","d","e","f","g","h","i","j","k","l","m",
               "n","o","p","q","r","s","t","u","v","w","x","y","z">>
Digits == {"0","1","2","3","4","5","6","7","8","9"}

ToLowerChar(c) ==
    IF \E i \in 1..26 : UpperCase[i] = c
    THEN LowerCase[CHOOSE i \in 1..26 : UpperCase[i] = c]
    ELSE c

ToLower(s) == [i \in 1..Len(s) |-> ToLowerChar(s[i])]

\* String.prototype.includes: p occurs in s as a contiguous substring.
Includes(s, p) ==
    \E i \in 0..(Len(s) - Len(p)) : SubSeq(s, i + 1, i + Len(p)) = p

EndsWith(s, p) == Len(s) >= Len(p) /\ SubSeq(s, Len(s) - Len(p) + 1, Len(s)) = p

RECURSIVE TrimLeft(_)
TrimLeft(s) == IF s # <<>> /\ Head(s) = " " THEN TrimLeft(Tail(s)) ELSE s
RECURSIVE TrimRight(_)
TrimRight(s) ==
    IF s # <<>> /\ s[Len(s)] = " " THEN TrimRight(SubSeq(s, 1, Len(s) - 1)) ELSE s
\* String.prototype.trim
Trim(s) == TrimRight(TrimLeft(s))

\* String.prototype.split('/'): the pieces between the slashes.
RECURSIVE SplitSlash(_, _, _)
SplitSlash(s, cur, acc) ==
    IF s = <<>> THEN Append(acc, cur)
    ELSE IF Head(s) = "/" THEN SplitSlash(Tail(s), <<>>, Append(acc, cur))
    ELSE SplitSlash(Tail(s), Append(cur, Head(s)), acc)

RECURSIVE Concat(_)
Concat(ss) == IF ss = <<>> THEN <<>> ELSE Head(ss) \o Concat(Tail(ss))

\* Literals of the source.
sBase == <<"h","t","t","p","s",":","/","/","f","l","i","x","p","a","t","r","o","l",".","c","o","m">>
sMovie == <<"M","o","v","i","e">>
sNetflix == <<"N","e","t","f","l","i","x">>
sAmazon == <<"A","m","a","z","o","n">>
sDisney == <<"D","i","s","n","e","y">>
sHBO == <<"H","B","O">>
sHulu == <<"H","u","l","u">>
sAppleTV == <<"A","p","p","l","e"," ","T","V">>
sStreaming == <<"s","t","r","e","a","m","i","n","g">>
sStream == <<"S","t","r","e","a","m">>
sJpg == <<".","j","p","g">>
s2025 == <<"2","0","2","5">>
sPremiere == <<"P","r","e","m","i","e","r","e">>
sGray == <<"t","e","x","t","-","g","r","a","y","-","6","0","0">>
sSepClass ==
    <<"m","x","-","1"," ","t","e","x","t","-","g","r","a","y","-",
     "6","0","0"," ","s","e","l","e","c","t","-","n","o","n","e">>

\* The alternatives of the pattern of scrapeFlixPatrol, the arguments of the
\* includes() chain of parseMovieData: the same eight words.
StreamingWords ==
    {sNetflix, sAmazon, sDisney, sHBO, sHulu, sAppleTV, sStreaming, sStream}

(***************************************************************************)
(* Rows of the page.                                                       *)
(*                                                                         *)
(* A row (<tr class="table-group">) is its first image's alt and src, its  *)
(* first anchor's href, its <span> elements in document order (each with   *)
(* its title attribute, its class attribute and its text) and the text     *)
(* outside the spans.  "raises" marks a row on which the body of the try   *)
(* block throws.  Nested spans are flattened.                              *)
(***************************************************************************)
SP(title, cls, text) == [title |-> title, cls |-> cls, text |-> text]

MkRow(alt, src, href, spans, extra, raises) ==
    [alt |-> alt, src |-> src, href |-> href, spans |-> spans,
     extra |-> extra, raises |-> raises]

SpanTexts(spans) == [i \in 1..Len(spans) |-> spans[i].text]

\* $(row).text(): the text nodes of the row, attributes excluded.
RowText(row) == Concat(SpanTexts(row.spans)) \o row.extra

\* The raw fragment html.split('<tr class="table-group">') yields: attribute
\* values and text nodes, in order.  The tag and attribute names between them
\* hold none of the words that parseMovieData looks for with includes(), so
\* each stretch of them is written as "<".
Attr(v) == IF v = Null THEN <<>> ELSE <<"<">> \o v
SpanMarkup(sp) == Attr(sp.title) \o Attr(sp.cls) \o <<"<">> \o sp.text
RowMarkup(row) ==
    Attr(row.alt) \o Attr(row.src) \o Attr(row.href)
    \o Concat([i \in 1..Len(row.spans) |-> SpanMarkup(row.spans[i])])
    \o <<"<">> \o row.extra

\* `https://flixpatrol.com${path}`
Absolute(path) == sBase \o path

(***************************************************************************)
(* scrapeFlixPatrol of src/server/index.js: the callback of                *)
(* $('tr.table-group').each.                                               *)
(***************************************************************************)
\* $(row).find('span[title="Premiere"]').text()
PremiereText(row) ==
    Concat(SpanTexts(SelectSeq(row.spans, LAMBDA sp : sp.title = sPremiere)))

\* fullDateText.split('/')[2] || null
CheerioYear(row) ==
    LET parts == SplitSlash(Trim(PremiereText(row)), <<>>, <<>>)
    IN  IF Len(parts) >= 3 /\ Truthy(parts[3]) THEN parts[3] ELSE Null

\* $(allSpans[k]).text().trim() || null, k counted from 0
CheerioSpan(row, k) ==
    IF Len(row.spans) >= k + 1 /\ Truthy(Trim(row.spans[k + 1].text))
    THEN Trim(row.spans[k + 1].text)
    ELSE Null

\* /Netflix|Amazon|Disney|HBO|Hulu|Apple TV|streaming|Stream/i.test(rowText)
CheerioHasStreaming(row) ==
    \E w \in StreamingWords : Includes(ToLower(RowText(row)), ToLower(w))

CheerioIsMovie(row) == Includes(RowText(row), sMovie)

\* $(row).find('img').attr('src') || '', $(row).find('a').attr('href') || ''
CheerioAttr(v) == IF v = Null THEN <<>> ELSE v

CheerioMovie(row) ==
    [title |-> IF Truthy(row.alt) THEN row.alt ELSE Null,
     posterUrl |-> IF Truthy(CheerioAttr(row.src))
                   THEN Absolute(CheerioAttr(row.src)) ELSE Null,
     link |-> IF Truthy(CheerioAttr(row.href))
              THEN Absolute(CheerioAttr(row.href)) ELSE Null,
     year |-> CheerioYear(row),
     country |-> CheerioSpan(row, 2),
     genre |-> CheerioSpan(row, 4),
     hasStreaming |-> CheerioHasStreaming(row),
     isMovie |-> CheerioIsMovie(row)]

(***************************************************************************)
(* parseMovieData (src/unnamed/part_000, and unused in                     *)
(* src/server/index.js): the callback of movieRows.forEach.                *)
(***************************************************************************)
\* (\d{2})\/(\d{2})\/(\d{4})
IsDate(t) ==
    /\ Len(t) = 10
    /\ t[3] = "/" /\ t[6] = "/"
    /\ \A i \in {1, 2, 4, 5, 7, 8, 9, 10} : t[i] \in Digits

IsPlain(sp) == sp.title = Null /\ sp.cls = Null /\ sp.text # <<>>

\* row.match(/<span class="text-gray-600">(\d{2})\/(\d{2})\/(\d{4})<\/span>/)
RegexYear(row) ==
    LET hits == SelectSeq(row.spans,
                    LAMBDA sp : sp.title = Null /\ sp.cls = sGray /\ IsDate(sp.text))
    IN  IF hits = <<>> THEN Null ELSE SubSeq(hits[1].text, 7, 10)

\* a plain span, the "|" separator span, then the Premiere span
RegexCountry(row) ==
    LET ok(i) == /\ IsPlain(row.spans[i])
                 /\ row.spans[i + 1].cls = sSepClass
                 /\ row.spans[i + 1].text = <<"|">>
                 /\ row.spans[i + 2].title = sPremiere
        I == {i \in 1..(Len(row.spans) - 2) : ok(i)}
    IN  IF I = {} THEN Null ELSE row.spans[CHOOSE i \in I : \A j \in I : i <= j].text

\* a plain span closing the cell: <span>...</span></div></div>
RegexGenre(row) ==
    IF row.spans # <<>> /\ IsPlain(row.spans[Len(row.spans)])
    THEN row.spans[Len(row.spans)].text
    ELSE Null

\* row.includes('Netflix') || ... || row.includes('Stream')
RegexHasStreaming(row) ==
    \E w \in StreamingWords : Includes(RowMarkup(row), w)

RegexIsMovie(row) == Includes(RowMarkup(row), sMovie)

\* row.match(/src="([^"]+\.jpg)"/): the src value, when it ends in .jpg
RegexSrc(row) ==
    IF row.src # Null /\ EndsWith(row.src, sJpg) /\ Len(row.src) > Len(sJpg)
    THEN row.src ELSE Null

\* row.match(/href="([^"]+)"/) and row.match(/alt="([^"]+)"/): a non-empty value
RegexAttr(v) == IF Truthy(v) THEN v ELSE Null

RegexMovie(row) ==
    [title |-> RegexAttr(row.alt),
     posterUrl |-> IF RegexSrc(row) # Null THEN Absolute(RegexSrc(row)) ELSE Null,
     link |-> IF RegexAttr(row.href) # Null THEN Absolute(RegexAttr(row.href)) ELSE Null,
     year |-> RegexYear(row),
     country |-> RegexCountry(row),
     genre |-> RegexGenre(row),
     hasStreaming |-> RegexHasStreaming(row),
     isMovie |-> RegexIsMovie(row)]

\* A filter that forgets the streaming test.
Keep2025AnyStreaming(movie) == movie.year = s2025

\* scrapedData.filter(movie => movie.year === '2025' && !movie.hasStreaming)
Keep2025(movie) == movie.year = s2025 /\ ~movie.hasStreaming
filter2025Movies(scrapedData) == SelectSeq(scrapedData, Keep2025)

(***************************************************************************)
(* Pages.                                                                  *)
(***************************************************************************)
tAlpha == <<"A","l">>
tBeta == <<"B","o">>
pJpg == <<"/","a",".","j","p","g">>
pPng == <<"/","a",".","p","n","g">>
pAbsJpg == <<"h","t","t","p","s",":","/","/","c","/","a",".","j","p","g">>
hRel == <<"/","t">>
hAbs == <<"h","t","t","p",":","/","/","c","/","t">>
d2025 == <<"1","2","/","0","7","/","2","0","2","5">>
d2024 == <<"1","2","/","0","7","/","2","0","2","4">>
dBare == <<" ","2","0","2","5"," ">>
cUS == <<"U","S">>
gDrama == <<"D","r","a","m","a">>
xTV == <<"T","V"," ","S","h","o","w">>
xLower == <<"m","o","v","i","e">>
xNetflix == sMovie \o <<" ">> \o sNetflix
xnetflix == sMovie \o <<" ","n","e","t","f","l","i","x">>
xHULU == sMovie \o <<" ","H","U","L","U">>
xstream == sMovie \o <<" ","s","t","r","e","a","m">>

Plain(text) == SP(Null, Null, text)
Sep == SP(Null, sSepClass, <<"|">>)

\* The cells of a listing row: rank, "|", country, "|", genre, the premiere
\* date (once under title="Premiere", once under class="text-gray-600").
Cells(country, genre, date) ==
    <<Plain(<<"1">>), Sep, Plain(country), Sep, Plain(genre),
      SP(sPremiere, Null, date), SP(Null, sGray, date)>>

\* The same cells in the order parseMovieData's country and genre patterns
\* expect: country, "|", premiere date, ..., genre last.
CellsAlt(country, genre, date) ==
    <<Plain(country), Sep, SP(sPremiere, Null, date), SP(Null, sGray, date),
      Plain(genre)>>

rAlpha == MkRow(tAlpha, pJpg, hRel, Cells(cUS, gDrama, d2025), sMovie, FALSE)
rAlphaBare == MkRow(tAlpha, Null, Null,
                    <<Plain(<<"1">>), Sep, Plain(<<" ">>), SP(sPremiere, Null, d2025),
                      SP(Null, sGray, d2025)>>, sMovie, FALSE)
rBeta == MkRow(tBeta, pAbsJpg, hAbs, CellsAlt(cUS, gDrama, d2025), sMovie, FALSE)
rBetaOld == MkRow(tBeta, pPng, hRel, Cells(cUS, gDrama, d2024), sMovie, FALSE)
rBareDate == MkRow(tBeta, <<>>, <<>>, Cells(cUS, gDrama, dBare), sMovie, FALSE)
rNetflix == MkRow(tAlpha, pJpg, hRel, Cells(cUS, gDrama, d2025), xNetflix, FALSE)
rnetflix == MkRow(tAlpha, pJpg, hRel, Cells(cUS, gDrama, d2025), xnetflix, FALSE)
rHULU == MkRow(tBeta, pJpg, hRel, CellsAlt(cUS, gDrama, d2025), xHULU, FALSE)
rstream == MkRow(tBeta, pJpg, hRel, Cells(cUS, gDrama, d2025), xstream, FALSE)
rNoAlt == MkRow(Null, pJpg, hRel, Cells(cUS, gDrama, d2025), sMovie, FALSE)
rEmptyAlt == MkRow(<<>>, pJpg, hRel, Cells(cUS, gDrama, d2025), sMovie, FALSE)
rShow == MkRow(tAlpha, pJpg, hRel, Cells(cUS, gDrama, d2025), xTV, FALSE)
rLower == MkRow(tBeta, pJpg, hRel, Cells(cUS, gDrama, d2025), xLower, FALSE)
rThrows == MkRow(tAlpha, pJpg, hRel, Cells(cUS, gDrama, d2025), sMovie, TRUE)

\* The rows pages are made of; a page is a sequence of row numbers.
RowCatalog ==
    <<rAlpha, rAlphaBare, rBeta, rnetflix, rBetaOld, rBareDate, rNetflix, rHULU,
      rstream, rNoAlt, rEmptyAlt, rShow, rLower, rThrows>>
RowIds == 1..Len(RowCatalog)

\* Rows of the pages the handlers fetch: rAlpha, rAlphaBare, rBeta, rnetflix.
PageRowIds == {n \in RowIds : RowCatalog[n] \in {rAlpha, rAlphaBare, rBeta, rnetflix}}

SeqsUpTo(S, n) == UNION {[1..k -> S] : k \in 0..n}

(***************************************************************************)
(* Both loops: the try block, the push and the catch.                      *)
(***************************************************************************)
Variants == {"cheerio", "regex"}

RowMovie(v, row) == IF v = "cheerio" THEN CheerioMovie(row) ELSE RegexMovie(row)

\* A push that forgets the category test.
ShouldPushAnyCategory(movie) == Truthy(movie.title)

\* if (title && isMovie)
ShouldPush(movie) == Truthy(movie.title) /\ movie.isMovie

\* What each variant reads from each row of the catalog.
MovieOf == [v \in Variants |-> [n \in RowIds |-> RowMovie(v, RowCatalog[n])]]

\* The movies row n adds: none when the try block throws (the catch logs and
\* the loop goes on), none when the condition fails.
RowPush(v, n) ==
    IF RowCatalog[n].raises THEN <<>>
    ELSE IF ShouldPush(MovieOf[v][n]) THEN <<MovieOf[v][n]>>
    ELSE <<>>

\* The whole loop: what scrapeFlixPatrol returns for a page.
RECURSIVE ExtractAll(_, _)
ExtractAll(v, rows) ==
    IF rows = <<>> THEN <<>>
    ELSE RowPush(v, Head(rows)) \o ExtractAll(v, Tail(rows))



(***************************************************************************)
(* The extractor, one row per step, and the filter on its result.          *)
(***************************************************************************)
Handlers == {"scheduled", "manual"}

NoWrite == [ok |-> FALSE]
NoResponse == [pending |-> TRUE]

PipeIdle ==
    /\ pc = [h \in Handlers |-> "idle"]
    /\ filtered = [h \in Handlers |-> <<>>]
    /\ totalScraped = [h \in Handlers |-> 0]
    /\ idx = [h \in Handlers |-> 1]
    /\ storedCount = [h \in Handlers |-> 0]
    /\ failedCount = [h \in Handlers |-> 0]
    /\ fetchLog = [h \in Handlers |-> <<>>]
    /\ response = [h \in Handlers |-> NoResponse]
    /\ store = {}
    /\ clock = 0
    /\ lastWrite = NoWrite
    /\ writeLog = [h \in Handlers |-> <<>>]

InitExtract ==
    /\ variant \in Variants
    /\ doc \in SeqsUpTo(RowIds, MaxRows)
    /\ pos = 1
    /\ movies = <<>>
    /\ emitIdx = <<>>
    /\ phase = "rows"
    /\ filteredOut = <<>>
    /\ PipeIdle

\* A loop without the try/catch: the throw of one row leaves the function.
ExtractRowNoCatch ==
    /\ phase = "rows"
    /\ pos <= Len(doc)
    /\ IF RowCatalog[doc[pos]].raises
       THEN /\ movies' = <<>>
            /\ emitIdx' = <<>>
            /\ pos' = Len(doc) + 1
       ELSE /\ movies' = movies \o RowPush(variant, doc[pos])
            /\ emitIdx' = emitIdx \o [k \in 1..Len(RowPush(variant, doc[pos])) |-> pos]
            /\ pos' = pos + 1
    /\ UNCHANGED <<variant, doc, phase, filteredOut, pipeVars>>

\* One call of the each/forEach callback.
ExtractRow ==
    /\ phase = "rows"
    /\ pos <= Len(doc)
    /\ movies' = movies \o RowPush(variant, doc[pos])
    /\ emitIdx' = emitIdx \o [k \in 1..Len(RowPush(variant, doc[pos])) |-> pos]
    /\ pos' = pos + 1
    /\ UNCHANGED <<variant, doc, phase, filteredOut, pipeVars>>

\* return movies
ExtractReturn ==
    /\ phase = "rows"
    /\ pos > Len(doc)
    /\ phase' = "parsed"
    /\ UNCHANGED <<variant, doc, pos, movies, emitIdx, filteredOut, pipeVars>>

\* The handler filters what scrapeFlixPatrol returned.
FilterStep ==
    /\ phase = "parsed"
    /\ filteredOut' = filter2025Movies(movies)
    /\ phase' = "filtered"
    /\ UNCHANGED <<variant, doc, pos, movies, emitIdx, pipeVars>>

NextExtract == ExtractRow \/ ExtractReturn \/ FilterStep

SpecExtract == InitExtract /\ [][NextExtract]_vars

(***************************************************************************)
(* The movies table.                                                       *)
(***************************************************************************)
\* INSERT INTO movies (...) VALUES (..., NOW())
NewRow(movie, now) ==
    [title |-> movie.title, poster_url |-> movie.posterUrl, link |-> movie.link,
     year |-> movie.year, country |-> movie.country, genre |-> movie.genre,
     has_streaming |-> movie.hasStreaming, updated_at |-> now]

\* The rows the insert conflicts with on (title, year); SQL NULLs never conflict.
Conflicts(rows, movie) ==
    {r \in rows : /\ movie.title # Null /\ movie.year # Null
                  /\ r.title = movie.title /\ r.year = movie.year}

\* An insert without the ON CONFLICT clause on a table without the key.
UpsertAlwaysInserts(rows, movie, now) == rows \cup {NewRow(movie, now)}

\* An update that keeps the stored value where the incoming one is null.
UpsertKeepsPopulated(rows, movie, now) ==
    LET keep(old, new) == IF new = Null THEN old ELSE new
    IN  IF Conflicts(rows, movie) = {} THEN rows \cup {NewRow(movie, now)}
        ELSE (rows \ Conflicts(rows, movie)) \cup
             {[r EXCEPT !.poster_url = keep(@, movie.posterUrl),
                        !.link = keep(@, movie.link),
                        !.country = keep(@, movie.country),
                        !.genre = keep(@, movie.genre),
                        !.has_streaming = movie.hasStreaming,
                        !.updated_at = now] : r \in Conflicts(rows, movie)}

\* INSERT ... ON CONFLICT (title, year) DO UPDATE SET ..., one atomic statement.
Upsert(rows, movie, now) ==
    IF Conflicts(rows, movie) = {} THEN rows \cup {NewRow(movie, now)}
    ELSE (rows \ Conflicts(rows, movie)) \cup
         {[r EXCEPT !.poster_url = movie.posterUrl,
                    !.link = movie.link,
                    !.country = movie.country,
                    !.genre = movie.genre,
                    !.has_streaming = movie.hasStreaming,
                    !.updated_at = now] : r \in Conflicts(rows, movie)}

(***************************************************************************)
(* The handlers of /scheduled and /scrape-now.                             *)
(***************************************************************************)
\* `HTTP error! status: ${response.status}`, and the message of a rejected fetch
msgNotOk == "HTTP error! status: 503"
msgFault == "fetch failed"
\* the message of the error neon() throws without a connection string
msgNoDb == "No database connection string was provided to neon()"

\* new Date().toISOString(): the worker's own time, which nothing compares.
isoNow == "toISOString"

\* The body of the catch block of each handler.
FailureBody(h, msg) ==
    IF h = "scheduled"
    THEN [success |-> FALSE, error |-> msg, timestamp |-> isoNow]
    ELSE [success |-> FALSE, error |-> msg]

\* The body each handler returns at the end of its try block.
SuccessBody(h) ==
    IF h = "scheduled"
    THEN [success |-> TRUE, timestamp |-> isoNow, totalScraped |-> totalScraped[h],
          filtered2025Count |-> Len(filtered[h]), storedCount |-> storedCount[h],
          message |-> "Successfully scraped and stored"]
    ELSE [success |-> TRUE, timestamp |-> isoNow, totalScraped |-> totalScraped[h],
          filtered2025Count |-> Len(filtered[h]), storedCount |-> storedCount[h],
          movies |-> filtered[h]]

\* The pages a fetch may return.
Pages == SeqsUpTo(PageRowIds, MaxPage)
OverlapPages == SeqsUpTo(PageRowIds, MaxOverlapPage)

Init ==
    /\ variant \in Variants
    /\ doc = <<>>
    /\ pos = 1
    /\ movies = <<>>
    /\ emitIdx = <<>>
    /\ phase = "none"
    /\ filteredOut = <<>>
    /\ PipeIdle

\* The router calls the handler, which calls scrapeFlixPatrol, which awaits fetch.
Start(h) ==
    /\ pc[h] = "idle"
    /\ pc' = [pc EXCEPT ![h] = "fetch"]
    /\ UNCHANGED <<variant, extractVars, filtered, totalScraped, idx, storedCount,
                   failedCount, fetchLog, response, store, clock, lastWrite, writeLog>>

\* A fetch that is not ok, handled as if response.ok were never read.
FetchFailsIgnored(h) ==
    /\ pc[h] = "fetch"
    /\ \E outcome \in {"notok", "fault"} :
           fetchLog' = [fetchLog EXCEPT ![h] = Append(@, outcome)]
    /\ \E page \in Pages :
           /\ totalScraped' = [totalScraped EXCEPT ![h] = Len(ExtractAll(variant, page))]
           /\ filtered' = [filtered EXCEPT ![h] = filter2025Movies(ExtractAll(variant, page))]
    /\ pc' = [pc EXCEPT ![h] = "store"]
    /\ UNCHANGED <<variant, extractVars, idx, storedCount, failedCount, response,
                   store, clock, lastWrite, writeLog>>

\* fetch rejects, or resolves with ok = false and scrapeFlixPatrol throws: the
\* handler's catch block answers.
FetchFails(h) ==
    /\ pc[h] = "fetch"
    /\ \E outcome \in {"notok", "fault"} :
           /\ fetchLog' = [fetchLog EXCEPT ![h] = Append(@, outcome)]
           /\ response' = [response EXCEPT ![h] =
                  FailureBody(h, IF outcome = "notok" THEN msgNotOk ELSE msgFault)]
    /\ pc' = [pc EXCEPT ![h] = "done"]
    /\ UNCHANGED <<variant, extractVars, filtered, totalScraped, idx, storedCount,
                   failedCount, store, clock, lastWrite, writeLog>>

\* fetch resolves ok with one of the pages: the page is parsed and filtered,
\* getDb returns the handle, and storeMoviesInDatabase starts its loop.
FetchOk(h, pages) ==
    /\ pc[h] = "fetch"
    /\ fetchLog' = [fetchLog EXCEPT ![h] = Append(@, "ok")]
    /\ \E page \in pages :
           /\ totalScraped' = [totalScraped EXCEPT ![h] = Len(ExtractAll(variant, page))]
           /\ filtered' = [filtered EXCEPT ![h] = filter2025Movies(ExtractAll(variant, page))]
    /\ pc' = [pc EXCEPT ![h] = "store"]
    /\ UNCHANGED <<variant, extractVars, idx, storedCount, failedCount, response,
                   store, clock, lastWrite, writeLog>>

\* fetch resolves ok, but getDb throws: the handler's catch block answers.
ConnectFails(h) ==
    /\ pc[h] = "fetch"
    /\ fetchLog' = [fetchLog EXCEPT ![h] = Append(@, "ok")]
    /\ response' = [response EXCEPT ![h] = FailureBody(h, msgNoDb)]
    /\ pc' = [pc EXCEPT ![h] = "done"]
    /\ UNCHANGED <<variant, extractVars, filtered, totalScraped, idx, storedCount,
                   failedCount, store, clock, lastWrite, writeLog>>

\* The statements of the current run of h that the loop has issued so far.
Issued(h) == {i \in 1..Len(writeLog[h]) : writeLog[h][i].ev = "issue"}

\* A loop that does not await: it issues the statement of the next movie while
\* an earlier one is still in flight.
StoreIssueNoAwait(h) ==
    /\ pc[h] \in {"store", "write"}
    /\ Cardinality(Issued(h)) < Len(filtered[h])
    /\ clock < MaxClock
    /\ pc' = [pc EXCEPT ![h] = "write"]
    /\ writeLog' = [writeLog EXCEPT ![h] =
           Append(@, [ev |-> "issue", k |-> Cardinality(Issued(h)) + 1,
                      movie |-> filtered[h][Cardinality(Issued(h)) + 1]])]
    /\ UNCHANGED <<variant, extractVars, filtered, totalScraped, idx, storedCount,
                   failedCount, fetchLog, response, store, clock, lastWrite>>

\* storeMoviesInDatabase: the loop takes the next movie and awaits its statement.
StoreIssue(h) ==
    /\ pc[h] = "store"
    /\ idx[h] <= Len(filtered[h])
    /\ clock < MaxClock
    /\ pc' = [pc EXCEPT ![h] = "write"]
    /\ writeLog' = [writeLog EXCEPT ![h] =
           Append(@, [ev |-> "issue", k |-> idx[h], movie |-> filtered[h][idx[h]]])]
    /\ UNCHANGED <<variant, extractVars, filtered, totalScraped, idx, storedCount,
                   failedCount, fetchLog, response, store, clock, lastWrite>>

\* storeMoviesInDatabase: the statement commits; storedCount++.
StoreSucceeds(h) ==
    /\ pc[h] = "write"
    /\ clock' = clock + 1
    /\ store' = Upsert(store, filtered[h][idx[h]], clock + 1)
    /\ storedCount' = [storedCount EXCEPT ![h] = @ + 1]
    /\ idx' = [idx EXCEPT ![h] = @ + 1]
    /\ lastWrite' = [ok |-> TRUE, movie |-> filtered[h][idx[h]],
                     prior |-> Conflicts(store, filtered[h][idx[h]])]
    /\ pc' = [pc EXCEPT ![h] = "store"]
    /\ writeLog' = [writeLog EXCEPT ![h] = Append(@, [ev |-> "done", k |-> idx[h]])]
    /\ UNCHANGED <<variant, extractVars, filtered, totalScraped, failedCount,
                   fetchLog, response>>

\* A catch block that lets the error of one statement leave the function.
StoreFailsAborts(h) ==
    /\ pc[h] = "write"
    /\ failedCount' = [failedCount EXCEPT ![h] = @ + 1]
    /\ idx' = [idx EXCEPT ![h] = 1]
    /\ lastWrite' = NoWrite
    /\ response' = [response EXCEPT ![h] = FailureBody(h, "constraint violation")]
    /\ pc' = [pc EXCEPT ![h] = "done"]
    /\ filtered' = [filtered EXCEPT ![h] = <<>>]
    /\ totalScraped' = [totalScraped EXCEPT ![h] = 0]
    /\ storedCount' = [storedCount EXCEPT ![h] = 0]
    /\ writeLog' = [writeLog EXCEPT ![h] = <<>>]
    /\ UNCHANGED <<variant, extractVars, fetchLog, store, clock>>

\* storeMoviesInDatabase: the statement fails; the catch logs and the loop goes on.
StoreFails(h) ==
    /\ pc[h] = "write"
    /\ failedCount' = [failedCount EXCEPT ![h] = @ + 1]
    /\ idx' = [idx EXCEPT ![h] = @ + 1]
    /\ lastWrite' = NoWrite
    /\ pc' = [pc EXCEPT ![h] = "store"]
    /\ writeLog' = [writeLog EXCEPT ![h] = Append(@, [ev |-> "done", k |-> idx[h]])]
    /\ UNCHANGED <<variant, extractVars, filtered, totalScraped, storedCount,
                   fetchLog, response, store, clock>>

\* storeMoviesInDatabase returns storedCount and the handler answers; its
\* locals are gone.
Respond(h) ==
    /\ pc[h] = "store"
    /\ idx[h] > Len(filtered[h])
    /\ response' = [response EXCEPT ![h] = SuccessBody(h)]
    /\ pc' = [pc EXCEPT ![h] = "done"]
    /\ filtered' = [filtered EXCEPT ![h] = <<>>]
    /\ totalScraped' = [totalScraped EXCEPT ![h] = 0]
    /\ idx' = [idx EXCEPT ![h] = 1]
    /\ storedCount' = [storedCount EXCEPT ![h] = 0]
    /\ writeLog' = [writeLog EXCEPT ![h] = <<>>]
    /\ UNCHANGED <<variant, extractVars, failedCount, fetchLog, store, clock, lastWrite>>

\* The router hands the response to the caller; the handler can be called again.
Deliver(h) ==
    /\ pc[h] = "done"
    /\ pc' = [pc EXCEPT ![h] = "idle"]
    /\ response' = [response EXCEPT ![h] = NoResponse]
    /\ failedCount' = [failedCount EXCEPT ![h] = 0]
    /\ fetchLog' = [fetchLog EXCEPT ![h] = <<>>]
    /\ UNCHANGED <<variant, extractVars, filtered, totalScraped, idx, storedCount,
                   store, clock, lastWrite, writeLog>>

\* Runs of the two handlers overlapping in any way: each await is a point
\* where the other handler may run.
Next ==
    \E h \in Handlers :
        \/ Start(h)
        \/ FetchFails(h)
        \/ FetchOk(h, OverlapPages)
        \/ ConnectFails(h)
        \/ StoreIssue(h)
        \/ StoreSucceeds(h)
        \/ StoreFails(h)
        \/ Respond(h)
        \/ Deliver(h)

Spec == Init /\ [][Next]_vars

\* A trigger that finds no run of the other handler under way.
StartAlone(h) ==
    /\ \A g \in Handlers \ {h} : pc[g] = "idle"
    /\ Start(h)

\* Runs of the two handlers one after another, over longer pages.
NextSerial ==
    \E h \in Handlers :
        \/ StartAlone(h)
        \/ FetchFails(h)
        \/ FetchOk(h, Pages)
        \/ ConnectFails(h)
        \/ StoreIssue(h)
        \/ StoreSucceeds(h)
        \/ StoreFails(h)
        \/ Respond(h)
        \/ Deliver(h)

SpecSerial == Init /\ [][NextSerial]_vars

(***************************************************************************)
(* Claims about the filter and the extractor (SpecExtract).                *)
(***************************************************************************)
Kept == {i \in 1..Len(movies) : movies[i].year = s2025 /\ movies[i].hasStreaming = FALSE}
KeptRank(i) == Cardinality({j \in Kept : j <= i})

\* C6: the filter returns exactly the records of the candidate sequence whose
\* year is the target year and whose hasStreaming is false, in their order;
\* every record handed on satisfies both; filtering the result again changes
\* nothing.
FilterIsSubsequence ==
    phase = "filtered" =>
        /\ Len(filteredOut) = Cardinality(Kept)
        /\ \A i \in Kept : filteredOut[KeptRank(i)] = movies[i]
        /\ \A k \in 1..Len(filteredOut) :
               filteredOut[k].year = s2025 /\ filteredOut[k].hasStreaming = FALSE
        /\ filter2025Movies(filteredOut) = filteredOut

\* A candidate with a streaming signal and one of another year are dropped,
\* one is kept.
FilterWitness ==
    /\ phase = "filtered"
    /\ Len(filteredOut) >= 1
    /\ \E i \in 1..Len(movies) : movies[i].hasStreaming
    /\ \E i \in 1..Len(movies) : movies[i].year # s2025 /\ ~movies[i].hasStreaming

Raises == [n \in RowIds |-> RowCatalog[n].raises]
RowEmitted(i) == \E k \in 1..Len(emitIdx) : emitIdx[k] = i

\* C7: a row whose parse completes is emitted iff its title is non-null and
\* its isMovie flag is true; no emitted record has a null title; the other
\* fields do not count.
EmitIffTitleAndMovie ==
    /\ Len(movies) = Len(emitIdx)
    /\ \A k \in 1..Len(movies) : movies[k].title # Null /\ movies[k].title # <<>>
    /\ \A i \in 1..(pos - 1) :
           ~Raises[doc[i]] =>
               (RowEmitted(i) <=> (MovieOf[variant][doc[i]].title # Null
                                   /\ MovieOf[variant][doc[i]].isMovie))

\* A record is emitted with poster, link and year all null, and a row with a
\* title that is no movie is left out.
EmitWitness ==
    /\ phase = "parsed"
    /\ \E k \in 1..Len(movies) :
           movies[k].posterUrl = Null /\ movies[k].link = Null /\ movies[k].year = Null
    /\ \E i \in 1..Len(doc) :
           ~Raises[doc[i]] /\ ~RowEmitted(i) /\ MovieOf[variant][doc[i]].title # Null

\* A row with a title and the Movie marker in its text.
WellFormed ==
    [n \in RowIds |-> /\ ~RowCatalog[n].raises
                      /\ Truthy(RowCatalog[n].alt)
                      /\ Includes(RowText(RowCatalog[n]), sMovie)]
OneMalformed ==
    /\ Cardinality({i \in 1..Len(doc) : Raises[doc[i]]}) = 1
    /\ \A i \in 1..Len(doc) : ~Raises[doc[i]] => WellFormed[doc[i]]
WellFormedRows == SelectSeq(doc, LAMBDA n : ~Raises[n])

\* C8: with one row that throws and N well-formed rows, the extractor returns
\* the N candidates of the well-formed rows, in document order.
OneBadRowSkipped ==
    (OneMalformed /\ pos > Len(doc)) =>
        /\ Len(movies) = Len(doc) - 1
        /\ \A k \in 1..Len(movies) :
               movies[k] = MovieOf[variant][WellFormedRows[k]]

\* The throwing row comes first and a well-formed row follows it.
OneBadRowWitness ==
    /\ phase = "parsed"
    /\ OneMalformed
    /\ Len(doc) >= 2
    /\ Raises[doc[1]]
    /\ Len(movies) = Len(doc) - 1

\* The words the claim lists, compared without regard to case.
ClaimedWords ==
    {sNetflix, sAmazon, sDisney, sHBO, sHulu, sAppleTV, sStreaming,
     <<"s","t","r","e","a","m">>}
ClaimedSignal ==
    [n \in RowIds |->
        \E w \in ClaimedWords : Includes(ToLower(RowText(RowCatalog[n])), ToLower(w))]

\* C9 (as claimed): hasStreaming of an emitted record is true iff the text of
\* its row contains one of the streaming words, whatever the case.
StreamingCaseInsensitive ==
    \A k \in 1..Len(movies) :
        movies[k].hasStreaming <=> ClaimedSignal[doc[emitIdx[k]]]

\* The src / href the extractor found in a row (null or "" when none).
FoundSrc(n) ==
    IF variant = "cheerio" THEN CheerioAttr(RowCatalog[n].src) ELSE RegexSrc(RowCatalog[n])
FoundHref(n) ==
    IF variant = "cheerio" THEN CheerioAttr(RowCatalog[n].href)
    ELSE RegexAttr(RowCatalog[n].href)
HasScheme(v) == Includes(v, <<":","/","/">>)
ClaimedUrl(v) ==
    IF ~Truthy(v) THEN Null ELSE IF HasScheme(v) THEN v ELSE Absolute(v)

\* C10 (as claimed): posterUrl and link are null when nothing was found, the
\* found value itself when it carries a scheme, and the base origin followed
\* by the found path otherwise.
UrlPrefixedUnlessScheme ==
    \A k \in 1..Len(movies) :
        /\ movies[k].posterUrl = ClaimedUrl(FoundSrc(doc[emitIdx[k]]))
        /\ movies[k].link = ClaimedUrl(FoundHref(doc[emitIdx[k]]))

(***************************************************************************)
(* Claims about the table (Spec) and about a run (SpecSerial).             *)
(***************************************************************************)
SameKey(r, movie) == r.title = movie.title /\ r.year = movie.year
SameFields(r, movie) ==
    /\ r.poster_url = movie.posterUrl
    /\ r.link = movie.link
    /\ r.country = movie.country
    /\ r.genre = movie.genre
    /\ r.has_streaming = movie.hasStreaming

\* C1: whatever runs have written, and however their writes interleave, the
\* table holds at most one row per (title, year).
OneRowPerKey ==
    \A r1 \in store : \A r2 \in store :
        (r1.title = r2.title /\ r1.year = r2.year) => r1 = r2

\* The same record has been written a second time while the other handler's
\* statement is in flight, and its key has exactly one row.
OneRowPerKeyWitness ==
    /\ lastWrite.ok
    /\ \E r \in lastWrite.prior : SameFields(r, lastWrite.movie)
    /\ Cardinality({r \in store : SameKey(r, lastWrite.movie)}) = 1
    /\ \E h \in Handlers : pc[h] = "write"

\* C2: after a successful write to a key that had a row, the row of that key
\* carries the incoming value of every non-key field (null included), its
\* updated_at is the time of the write and later than before, and its title
\* and year are what they were.
OverwriteReplacesFields ==
    (lastWrite.ok /\ lastWrite.prior # {}) =>
        /\ \E r \in store :
              /\ {q \in store : SameKey(q, lastWrite.movie)} = {r}
              /\ SameFields(r, lastWrite.movie)
              /\ r.updated_at = clock
              /\ \A old \in lastWrite.prior :
                     /\ r.updated_at > old.updated_at
                     /\ r.title = old.title
                     /\ r.year = old.year

\* A null poster has replaced a stored poster.
OverwriteWitness ==
    /\ lastWrite.ok
    /\ lastWrite.movie.posterUrl = Null
    /\ \E old \in lastWrite.prior : old.poster_url # Null
    /\ \E r \in store : SameKey(r, lastWrite.movie) /\ r.poster_url = Null

\* C3: a failed write does not stop the loop; storedCount counts the writes
\* that succeeded; the run answers with success = true, whatever failed.
WriteFailuresIsolated ==
    \A h \in Handlers :
        /\ pc[h] \in {"store", "write"} =>
               /\ storedCount[h] + failedCount[h] = idx[h] - 1
               /\ idx[h] <= Len(filtered[h]) + 1
        /\ (pc[h] = "done" /\ failedCount[h] > 0) => response[h].success
        /\ (pc[h] = "done" /\ response[h].success) =>
               response[h].storedCount + failedCount[h] = response[h].filtered2025Count

\* One write of three failed: filtered2025Count = 3 and storedCount = 2.
WriteFailuresWitness ==
    \E h \in Handlers :
        /\ pc[h] = "done"
        /\ response[h].success
        /\ failedCount[h] = 1
        /\ response[h].filtered2025Count = 3
        /\ response[h].storedCount = 2

\* C4: a fetch that is not ok or that faults ends the run: no second fetch, no
\* record extracted or filtered, no write issued, and a body with success =
\* false.
FetchFailureAborts ==
    \A h \in Handlers :
        (fetchLog[h] # <<>> /\ fetchLog[h][1] # "ok") =>
            /\ Len(fetchLog[h]) = 1
            /\ pc[h] = "done"
            /\ response[h].success = FALSE
            /\ totalScraped[h] = 0
            /\ filtered[h] = <<>>
            /\ idx[h] = 1
            /\ storedCount[h] = 0
            /\ failedCount[h] = 0

\* A run whose fetch was not ok has answered, with rows of an earlier run in
\* the table.
FetchFailureWitness ==
    \E h \in Handlers :
        /\ fetchLog[h] = <<"notok">>
        /\ pc[h] = "done"
        /\ response[h].error = msgNotOk
        /\ store # {}

\* C5 (as claimed): the body of every failed run carries a timestamp and an
\* error message, whichever handler ran.
FailureHasTimestampAndMessage ==
    \A h \in Handlers :
        (pc[h] = "done" /\ ~response[h].success) =>
            /\ "timestamp" \in DOMAIN response[h]
            /\ "error" \in DOMAIN response[h]

(***************************************************************************)
(* Claims about the order of the writes of a run (SpecSerial).             *)
(***************************************************************************)
\* The statements of the current run of h that are issued and not completed.
InFlight(h) ==
    {writeLog[h][i].k : i \in Issued(h)}
        \ {writeLog[h][i].k : i \in {j \in 1..Len(writeLog[h]) : writeLog[h][j].ev = "done"}}

\* C11: within a run at most one write is in flight; the statements are
\* issued for records 1, 2, 3, ... of the filtered sequence, in that order,
\* each only after the one before it has completed.
WritesOneAtATime ==
    \A h \in Handlers :
        /\ Cardinality(InFlight(h)) <= 1
        /\ \A i \in 1..Len(writeLog[h]) :
               IF i % 2 = 1
               THEN /\ writeLog[h][i].ev = "issue"
                    /\ writeLog[h][i].k = (i + 1) \div 2
                    /\ writeLog[h][i].movie = filtered[h][(i + 1) \div 2]
               ELSE /\ writeLog[h][i].ev = "done"
                    /\ writeLog[h][i].k = i \div 2

\* Of three records, not all alike, the first write has failed, the second
\* has succeeded, and the third is in flight.
WritesOneAtATimeWitness ==
    \E h \in Handlers :
        /\ Len(filtered[h]) = 3
        /\ filtered[h][1] # filtered[h][2]
        /\ filtered[h][2] # filtered[h][3]
        /\ Len(writeLog[h]) = 5
        /\ InFlight(h) = {3}
        /\ failedCount[h] = 1
        /\ storedCount[h] = 1

====
